---- MODULE Spec2Model ----
(***************************************************************************)
(* Model of esal/events.py: the Header name<->index mapping and the Event  *)
(* record (access by index, name, slice and attribute, sort key, partial   *)
(* match).                                                                  *)
(*                                                                         *)
(* Python values are records [t, i, s] (type name, integer payload, string *)
(* payload); tuples and slices carry extra fields.  Python indices are     *)
(* 0-based; a Python tuple is a TLA+ sequence, so position p of the tuple  *)
(* is element p + 1 of the sequence.                                       *)
(***************************************************************************)
EXTENDS Integers, Sequences, FiniteSets

VARIABLES
    idxs_to_names,  \* Header.idxs_to_names: the tuple of names
    names_to_idxs,  \* Header.names_to_idxs: the dict name -> index
    event,          \* the Event: the 5-tuple (seq, time, dura, ev, val)
    ctor_names,     \* the names the Header was constructed from
    ctor_event,     \* the field values the Event was constructed from
    op,             \* the operation of the last call ("none": no call pending)
    arg,            \* the argument of the last call
    out,            \* what the last call returned or raised
    log,            \* the criteria evaluated and the predicates invoked by the last call
    failed          \* whether some call so far raised an exception

vars == <<idxs_to_names, names_to_idxs, event, ctor_names, ctor_event, op, arg, out, log, failed>>

----------------------------------------------------------------------------
(* Bounds *)

\* longest sequence of names a Header is constructed from
MaxLen == 3
\* integer keys and slice bounds range over -MaxKey .. MaxKey
MaxKey == 6

----------------------------------------------------------------------------
(* Python values *)

None_ == [t |-> "NoneType", i |-> 0, s |-> ""]
PyInt(n) == [t |-> "int", i |-> n, s |-> ""]
PyStr(x) == [t |-> "str", i |-> 0, s |-> x]
\* True: bool is a subclass of int, True == 1
True_ == [t |-> "bool", i |-> 1, s |-> ""]
\* a float with a fractional part (1.5): neither int, str nor slice
Float15 == [t |-> "float", i |-> 15, s |-> ""]
\* a function object, identified by its name
Func(x) == [t |-> "function", i |-> 0, s |-> x]
\* general.Any, the wildcard sentinel
Any == [t |-> "Any", i |-> 0, s |-> ""]
\* a parameter the caller did not supply
Unset == [t |-> "unset", i |-> 0, s |-> ""]
Tuple(items) == [t |-> "tuple", i |-> 0, s |-> "", items |-> items]
Slice(a, b, c) == [t |-> "slice", i |-> 0, s |-> "", start |-> a, stop |-> b, step |-> c]

\* isinstance(key, int): bool is a subclass of int
IsInt(key) == key.t \in {"int", "bool"}
IsStr(key) == key.t = "str"
IsSlice(key) == key.t = "slice"

\* a call's outcome: a returned value, or a raised exception carrying the key
Ok(v) == [kind |-> "ok", val |-> v]
Raise(kind, key) == [kind |-> kind, val |-> key]
NoResult == [kind |-> "none", val |-> None_]

Max(a, b) == IF a >= b THEN a ELSE b
Min(a, b) == IF a <= b THEN a ELSE b

----------------------------------------------------------------------------
(* Native tuple indexing, tuple.__getitem__ *)

\* slice.indices(length) for a step already checked non-zero; None bounds default
SliceStart(key, step, length) ==
    LET lower == IF step < 0 THEN -1 ELSE 0
        upper == IF step < 0 THEN length - 1 ELSE length
    IN  IF key.start.t = "NoneType" THEN (IF step < 0 THEN upper ELSE lower)
        ELSE IF key.start.i < 0 THEN Max(key.start.i + length, lower)
        ELSE Min(key.start.i, upper)

SliceStop(key, step, length) ==
    LET lower == IF step < 0 THEN -1 ELSE 0
        upper == IF step < 0 THEN length - 1 ELSE length
    IN  IF key.stop.t = "NoneType" THEN (IF step < 0 THEN lower ELSE upper)
        ELSE IF key.stop.i < 0 THEN Max(key.stop.i + length, lower)
        ELSE Min(key.stop.i, upper)

\* the positions start, start + step, ... short of stop
RECURSIVE SliceItems(_, _, _, _)
SliceItems(items, pos, stop, step) ==
    IF (step > 0 /\ pos < stop) \/ (step < 0 /\ pos > stop)
    THEN <<items[pos + 1]>> \o SliceItems(items, pos + step, stop, step)
    ELSE <<>>

\* items[key] for a tuple: negative integers count from the end
tuple_getitem(items, key) ==
    IF IsInt(key) THEN
        IF key.i >= 0 /\ key.i < Len(items) THEN Ok(items[key.i + 1])
        ELSE IF key.i < 0 /\ key.i >= -Len(items) THEN Ok(items[key.i + Len(items) + 1])
        ELSE Raise("IndexError", key)
    ELSE IF IsSlice(key) THEN
        LET step == IF key.step.t = "NoneType" THEN 1 ELSE key.step.i
        IN  IF step = 0 THEN Raise("ValueError", key)
            ELSE Ok(Tuple(SliceItems(items, SliceStart(key, step, Len(items)),
                                     SliceStop(key, step, Len(items)), step)))
    ELSE Raise("TypeError", key)

----------------------------------------------------------------------------
(* Header *)

\* the names a Header may be built from, and one name no Header holds
Names == {"a", "b", "c"}
AbsentName == "zz"

RECURSIVE SeqsUpTo(_, _)
SeqsUpTo(S, n) ==
    IF n = 0 THEN {<<>>}
    ELSE LET shorter == SeqsUpTo(S, n - 1)
         IN  shorter \cup {Append(q, x) : q \in {r \in shorter : Len(r) = n - 1}, x \in S}

\* the dict numbering the names from 1, as enumerate(names, 1) would
RECURSIVE dict_of_from1(_, _)
dict_of_from1(names, n) ==
    IF n = 0 THEN <<>>
    ELSE LET d == dict_of_from1(names, n - 1)
             name == names[n]
         IN  [k \in (DOMAIN d) \cup {name} |-> IF k = name THEN n ELSE d[k]]

\* the dict keeping the first index of a repeated name, as setdefault would
RECURSIVE dict_of_keep_first(_, _)
dict_of_keep_first(names, n) ==
    IF n = 0 THEN <<>>
    ELSE LET d == dict_of_keep_first(names, n - 1)
             name == names[n]
         IN  [k \in (DOMAIN d) \cup {name} |->
                 IF k \in DOMAIN d THEN d[k] ELSE n - 1]

\* dict((name, index) for index, name in enumerate(names)): a later pair
\* replaces an earlier pair with the same name
RECURSIVE dict_of(_, _)
dict_of(names, n) ==
    IF n = 0 THEN <<>>
    ELSE LET d == dict_of(names, n - 1)
             name == names[n]
         IN  [k \in (DOMAIN d) \cup {name} |-> IF k = name THEN n - 1 ELSE d[k]]

\* Header.__init__
Header__init__(names) ==
    [idxs_to_names |-> names, names_to_idxs |-> dict_of(names, Len(names))]

\* dict lookup d[key]: only a str can equal one of the names
dict_getitem(d, key) ==
    IF IsStr(key) /\ key.s \in DOMAIN d THEN Ok(PyInt(d[key.s]))
    ELSE Raise("KeyError", key)

\* Header.__len__
Header__len__(itn) == Ok(PyInt(Len(itn)))

\* Header.__getitem__ without the test key < 0
Header__getitem__no_lower(itn, nti, key) ==
    IF IsInt(key) THEN
        IF key.i >= Len(itn) THEN Raise("IndexError", key)
        ELSE Ok(key)
    ELSE IF IsStr(key) THEN dict_getitem(nti, key)
    ELSE Raise("KeyError", key)

\* Header.__getitem__
Header__getitem__(itn, nti, key) ==
    IF IsInt(key) THEN
        IF key.i < 0 \/ key.i >= Len(itn) THEN Raise("IndexError", key)
        ELSE Ok(key)
    ELSE IF IsStr(key) THEN dict_getitem(nti, key)
    ELSE Raise("KeyError", key)

\* the names as Python values
StrItems(itn) == [p \in 1..Len(itn) |-> PyStr(itn[p])]

\* Header.name_of
name_of(itn, index) == tuple_getitem(StrItems(itn), index)

\* Header.index_of
index_of(nti, name) == dict_getitem(nti, name)

\* Header.names
Header_names(itn) == Ok(Tuple(StrItems(itn)))

----------------------------------------------------------------------------
(* Event *)

_EVENT_FIELD_NAMES == <<"seq", "time", "dura", "ev", "val">>

\* position (0-based) of a field of the namedtuple
FieldPos(f) == CHOOSE p \in 0..(Len(_EVENT_FIELD_NAMES) - 1) : _EVENT_FIELD_NAMES[p + 1] = f

\* Event._header
Event_header == Header__init__(_EVENT_FIELD_NAMES)

\* Event.__new__: every parameter defaults to None
Event__new__(given) ==
    [p \in 1..Len(_EVENT_FIELD_NAMES) |-> IF given[p] = Unset THEN None_ ELSE given[p]]

\* Event.__getitem__ testing isinstance(key, int) alone: a slice is refused
Event__getitem__no_slice(e, nti, key) ==
    IF IsInt(key) THEN tuple_getitem(e, key)
    ELSE IF IsStr(key) THEN
        LET idx == index_of(nti, key)
        IN  IF idx.kind = "ok" THEN tuple_getitem(e, idx.val) ELSE idx
    ELSE Raise("KeyError", key)

\* Event.__getitem__, with self._header.names_to_idxs as nti
RECURSIVE Event__getitem__(_, _, _)
Event__getitem__(e, nti, key) ==
    IF IsInt(key) \/ IsSlice(key) THEN tuple_getitem(e, key)
    ELSE IF IsStr(key) THEN
        LET idx == index_of(nti, key)
        IN  IF idx.kind = "ok" THEN Event__getitem__(e, nti, idx.val) ELSE idx
    ELSE Raise("KeyError", key)

\* attribute access reading the fields in the order of Event.matches
Event_getattr_match_order(e, f) ==
    Ok(e[(CHOOSE n \in 1..5 : <<"ev", "time", "val", "dura", "seq">>[n] = f)])

\* attribute access e.f: the namedtuple's field descriptor reads the position of f
Event_getattr(e, f) == Ok(e[FieldPos(f) + 1])

\* Event.header
header(itn, nti) ==
    Ok([t |-> "Header", i |-> 0, s |-> "", idxs_to_names |-> itn, names_to_idxs |-> nti])

----------------------------------------------------------------------------
(* Partial match *)

\* callable(x)
callable(x) == x.t = "function"

\* the predicate lambda v: v == 1
isOne == Func("isOne")

\* f(value) for the predicates of the model
Apply(f, value) == f = isOne /\ value = PyInt(1)

\* _valuepred_matches_value dispatching on the kind of criterion: a callable is
\* only ever invoked, never compared
_valuepred_matches_value_tagged(valuepred, value) ==
    IF valuepred = Any THEN [result |-> TRUE, invoked |-> FALSE]
    ELSE IF callable(valuepred) THEN [result |-> Apply(valuepred, value), invoked |-> TRUE]
    ELSE [result |-> valuepred = value, invoked |-> FALSE]

\* _valuepred_matches_value, with whether it invoked valuepred
_valuepred_matches_value(valuepred, value) ==
    IF valuepred = Any THEN [result |-> TRUE, invoked |-> FALSE]
    ELSE IF valuepred = value THEN [result |-> TRUE, invoked |-> FALSE]
    ELSE IF callable(valuepred) THEN [result |-> Apply(valuepred, value), invoked |-> TRUE]
    ELSE [result |-> FALSE, invoked |-> FALSE]

\* the fields compared in the order of the record
FieldOrder == <<"seq", "time", "dura", "ev", "val">>

\* the order in which Event.matches compares the fields
MatchOrder == <<"ev", "time", "val", "dura", "seq">>

\* the and-chain of Event.matches from its n-th operand on: the result, the
\* fields whose criterion was evaluated and those whose predicate was invoked
RECURSIVE matches_from(_, _, _)
matches_from(e, crit, n) ==
    IF n > Len(MatchOrder) THEN [result |-> TRUE, evaluated |-> <<>>, invoked |-> <<>>]
    ELSE LET f == MatchOrder[n]
             r == _valuepred_matches_value(crit[FieldPos(f) + 1], e[FieldPos(f) + 1])
             inv == IF r.invoked THEN <<f>> ELSE <<>>
         IN  IF r.result
             THEN LET rest == matches_from(e, crit, n + 1)
                  IN  [result |-> rest.result, evaluated |-> <<f>> \o rest.evaluated,
                       invoked |-> inv \o rest.invoked]
             ELSE [result |-> FALSE, evaluated |-> <<f>>, invoked |-> inv]

\* Event.matches: crit is (seq, time, dura, ev, val), Any where not supplied
matches(e, crit) == matches_from(e, crit, 1)

----------------------------------------------------------------------------
(* Sort key *)

\* rank of a type among the types of the model, and of a string among its strings
TypeRank(t) == CASE t = "NoneType" -> 0 [] t = "bool" -> 1 [] t = "function" -> 2
                 [] t = "int" -> 3 [] t = "str" -> 4 [] OTHER -> 5
StrRank(x) == CASE x = "" -> 0 [] x = "a" -> 1 [] x = "b" -> 2 [] OTHER -> 3

\* the canonical form of one value: absent before present, then the type,
\* then the value itself
universal_sort_key(v) ==
    [present |-> IF v = None_ THEN 0 ELSE 1, ty |-> v.t, i |-> v.i, s |-> v.s]

\* general.iterable_sort_key: the tuple of the canonical forms, in order
iterable_sort_key(items) == [p \in 1..Len(items) |-> universal_sort_key(items[p])]

\* x < y for two canonical forms
canon_lt(x, y) ==
    \/ x.present < y.present
    \/ x.present = y.present /\ TypeRank(x.ty) < TypeRank(y.ty)
    \/ x.present = y.present /\ x.ty = y.ty /\ x.i < y.i
    \/ x.present = y.present /\ x.ty = y.ty /\ x.i = y.i /\ StrRank(x.s) < StrRank(y.s)

\* k1 < k2 for two tuples: the first position where they differ decides, and
\* a proper prefix is smaller
RECURSIVE tuple_lt(_, _, _)
tuple_lt(k1, k2, n) ==
    IF n > Len(k1) \/ n > Len(k2) THEN Len(k1) < Len(k2)
    ELSE IF k1[n] = k2[n] THEN tuple_lt(k1, k2, n + 1)
    ELSE canon_lt(k1[n], k2[n])

\* a sort key that leaves the last field out
sort_key_without_val(e) == iterable_sort_key(SubSeq(e, 1, Len(e) - 1))

\* Event.sort_key
sort_key(e) == iterable_sort_key(e)

\* a.sort_key() <, ==, > b.sort_key()
compare_keys(a, b) ==
    [t |-> "cmp", i |-> 0, s |-> "",
     lt |-> tuple_lt(sort_key(a), sort_key(b), 1),
     eq |-> sort_key(a) = sort_key(b),
     gt |-> tuple_lt(sort_key(b), sort_key(a), 1)]

----------------------------------------------------------------------------
(* Inputs *)

IntKeys == {PyInt(n) : n \in (-MaxKey)..MaxKey} \cup {True_}
FieldNames == {_EVENT_FIELD_NAMES[p] : p \in 1..Len(_EVENT_FIELD_NAMES)}
StrKeys == {PyStr(x) : x \in Names \cup {AbsentName} \cup FieldNames}
OtherKeys == {None_, Float15}
SliceBounds == {None_, PyInt(-1), PyInt(1), PyInt(MaxKey)}
SliceSteps == {None_, PyInt(-1), PyInt(0), PyInt(2)}
SliceKeys == {Slice(a, b, c) : a \in SliceBounds, b \in SliceBounds, c \in SliceSteps}

\* what a field is constructed from (Unset: left to its default, None), and
\* what a criterion of matches may be
FieldArgs == {Unset, PyInt(1), isOne}
Criteria == {Any, PyInt(1), isOne}
\* field values that have an order, for an Event and for the Event it is
\* compared with
SortArgs == {Unset, PyInt(1), PyStr("a")}
OtherArgs == {Unset, PyInt(1), PyInt(2)}

Tuples5(S) == [1..Len(_EVENT_FIELD_NAMES) -> S]

HeaderKeys == IntKeys \cup StrKeys \cup OtherKeys
NameOfKeys == IntKeys \cup OtherKeys
IndexOfKeys == StrKeys \cup OtherKeys \cup {PyInt(0)}
EventKeys == IntKeys \cup StrKeys \cup OtherKeys \cup SliceKeys
CriteriaTuples == Tuples5(Criteria)
OtherEvents == {Event__new__(b) : b \in Tuples5(OtherArgs)}

----------------------------------------------------------------------------
(* Construction *)

NoCall == op = "none" /\ arg = None_ /\ out = NoResult /\ log = <<>> /\ failed = FALSE

\* a Header built from any sequence of names, beside the default Event
InitHeader ==
    /\ \E nm \in SeqsUpTo(Names, MaxLen) :
         /\ ctor_names = nm
         /\ idxs_to_names = Header__init__(nm).idxs_to_names
         /\ names_to_idxs = Header__init__(nm).names_to_idxs
    /\ ctor_event = [p \in 1..Len(_EVENT_FIELD_NAMES) |-> Unset]
    /\ event = Event__new__(ctor_event)
    /\ NoCall

\* an Event built from any combination of supplied and defaulted fields, with
\* the Header every Event shares
InitEvent ==
    /\ ctor_names = _EVENT_FIELD_NAMES
    /\ idxs_to_names = Event_header.idxs_to_names
    /\ names_to_idxs = Event_header.names_to_idxs
    /\ ctor_event \in Tuples5(FieldArgs)
    /\ event = Event__new__(ctor_event)
    /\ NoCall

\* an Event whose fields all have an order
InitSort ==
    /\ ctor_names = _EVENT_FIELD_NAMES
    /\ idxs_to_names = Event_header.idxs_to_names
    /\ names_to_idxs = Event_header.names_to_idxs
    /\ ctor_event \in Tuples5(SortArgs)
    /\ event = Event__new__(ctor_event)
    /\ NoCall

----------------------------------------------------------------------------
(* Operations.  A call is made when no call is pending; it records its     *)
(* argument and its outcome, and changes neither the Header nor the Event. *)

HeaderLen ==
    /\ op = "none"
    /\ op' = "Header.__len__" /\ arg' = None_ /\ log' = <<>>
    /\ out' = Header__len__(idxs_to_names)
    /\ failed' = (failed \/ out'.kind # "ok")
    /\ UNCHANGED <<idxs_to_names, names_to_idxs, event, ctor_names, ctor_event>>

HeaderGetItem(key) ==
    /\ op = "none"
    /\ op' = "Header.__getitem__" /\ arg' = key /\ log' = <<>>
    /\ out' = Header__getitem__(idxs_to_names, names_to_idxs, key)
    /\ failed' = (failed \/ out'.kind # "ok")
    /\ UNCHANGED <<idxs_to_names, names_to_idxs, event, ctor_names, ctor_event>>

HeaderNameOf(index) ==
    /\ op = "none"
    /\ op' = "Header.name_of" /\ arg' = index /\ log' = <<>>
    /\ out' = name_of(idxs_to_names, index)
    /\ failed' = (failed \/ out'.kind # "ok")
    /\ UNCHANGED <<idxs_to_names, names_to_idxs, event, ctor_names, ctor_event>>

\* a lookup that inserts the missing name, as dict.setdefault would
HeaderIndexOfInserting(name) ==
    /\ op = "none"
    /\ op' = "Header.index_of" /\ arg' = name /\ log' = <<>>
    /\ out' = index_of(names_to_idxs, name)
    /\ names_to_idxs' =
         IF IsStr(name) /\ name.s \notin DOMAIN names_to_idxs
         THEN [k \in (DOMAIN names_to_idxs) \cup {name.s} |->
                 IF k = name.s THEN Len(idxs_to_names) ELSE names_to_idxs[k]]
         ELSE names_to_idxs
    /\ failed' = (failed \/ out'.kind # "ok")
    /\ UNCHANGED <<idxs_to_names, event, ctor_names, ctor_event>>

HeaderIndexOf(name) ==
    /\ op = "none"
    /\ op' = "Header.index_of" /\ arg' = name /\ log' = <<>>
    /\ out' = index_of(names_to_idxs, name)
    /\ failed' = (failed \/ out'.kind # "ok")
    /\ UNCHANGED <<idxs_to_names, names_to_idxs, event, ctor_names, ctor_event>>

HeaderNames ==
    /\ op = "none"
    /\ op' = "Header.names" /\ arg' = None_ /\ log' = <<>>
    /\ out' = Header_names(idxs_to_names)
    /\ failed' = (failed \/ out'.kind # "ok")
    /\ UNCHANGED <<idxs_to_names, names_to_idxs, event, ctor_names, ctor_event>>

EventGetItem(key) ==
    /\ op = "none"
    /\ op' = "Event.__getitem__" /\ arg' = key /\ log' = <<>>
    /\ out' = Event__getitem__(event, names_to_idxs, key)
    /\ failed' = (failed \/ out'.kind # "ok")
    /\ UNCHANGED <<idxs_to_names, names_to_idxs, event, ctor_names, ctor_event>>

EventGetAttr(f) ==
    /\ op = "none"
    /\ op' = "Event.getattr" /\ arg' = PyStr(f) /\ log' = <<>>
    /\ out' = Event_getattr(event, f)
    /\ failed' = (failed \/ out'.kind # "ok")
    /\ UNCHANGED <<idxs_to_names, names_to_idxs, event, ctor_names, ctor_event>>

EventHeader ==
    /\ op = "none"
    /\ op' = "Event.header" /\ arg' = None_ /\ log' = <<>>
    /\ out' = header(idxs_to_names, names_to_idxs)
    /\ failed' = (failed \/ out'.kind # "ok")
    /\ UNCHANGED <<idxs_to_names, names_to_idxs, event, ctor_names, ctor_event>>

EventSortKey ==
    /\ op = "none"
    /\ op' = "Event.sort_key" /\ arg' = None_ /\ log' = <<>>
    /\ out' = Ok(Tuple(sort_key(event)))
    /\ failed' = (failed \/ out'.kind # "ok")
    /\ UNCHANGED <<idxs_to_names, names_to_idxs, event, ctor_names, ctor_event>>

\* the sort keys of this Event and of another Event b, compared
SortKeyCompare(b) ==
    /\ op = "none"
    /\ op' = "compare sort_key" /\ arg' = Tuple(b) /\ log' = <<>>
    /\ out' = Ok(compare_keys(event, b))
    /\ failed' = (failed \/ out'.kind # "ok")
    /\ UNCHANGED <<idxs_to_names, names_to_idxs, event, ctor_names, ctor_event>>

EventMatches(crit) ==
    /\ op = "none"
    /\ op' = "Event.matches" /\ arg' = Tuple(crit)
    /\ LET m == matches(event, crit)
       IN  /\ out' = Ok([t |-> "bool", i |-> IF m.result THEN 1 ELSE 0, s |-> ""])
           /\ log' = <<m.evaluated, m.invoked>>
    /\ failed' = (failed \/ out'.kind # "ok")
    /\ UNCHANGED <<idxs_to_names, names_to_idxs, event, ctor_names, ctor_event>>

\* the caller takes the value or the exception; the objects stay as they are
Return ==
    /\ op # "none"
    /\ op' = "none" /\ arg' = None_ /\ out' = NoResult /\ log' = <<>>
    /\ failed' = failed
    /\ UNCHANGED <<idxs_to_names, names_to_idxs, event, ctor_names, ctor_event>>

HeaderCalls ==
    \/ HeaderLen
    \/ \E key \in HeaderKeys : HeaderGetItem(key)
    \/ \E index \in NameOfKeys : HeaderNameOf(index)
    \/ \E name \in IndexOfKeys : HeaderIndexOf(name)
    \/ HeaderNames

EventCalls ==
    \/ \E key \in EventKeys : EventGetItem(key)
    \/ \E f \in FieldNames : EventGetAttr(f)
    \/ EventHeader
    \/ EventSortKey
    \/ \E crit \in CriteriaTuples : EventMatches(crit)

Init == InitEvent
Next == HeaderCalls \/ EventCalls \/ Return
Spec == Init /\ [][Next]_vars

NextHeader == HeaderCalls \/ Return
HeaderSpec == InitHeader /\ [][NextHeader]_vars

NextSort == EventSortKey \/ (\E b \in OtherEvents : SortKeyCompare(b)) \/ Return
SortSpec == InitSort /\ [][NextSort]_vars

----------------------------------------------------------------------------
(* Properties of the Header *)

\* the number of fields of the Header
N == Len(idxs_to_names)

\* the names the Header was constructed from
InHeader(x) == \E p \in 1..Len(ctor_names) : ctor_names[p] = x

Distinct(q) == \A p1, p2 \in 1..Len(q) : q[p1] = q[p2] => p1 = p2

\* the largest position (0-based) at which x occurs
LastPos(x) ==
    CHOOSE p \in 0..(Len(ctor_names) - 1) :
        /\ ctor_names[p + 1] = x
        /\ \A q \in 0..(Len(ctor_names) - 1) : ctor_names[q + 1] = x => q <= p

\* C1: Header.__getitem__ returns an integer key k iff 0 <= k < N and raises
\* IndexError for every other integer; for a string it returns the index stored
\* for the name and raises KeyError when the name is not in the header; every
\* other key raises KeyError; no returned value is outside [0, N).
C1_Resolve ==
    op = "Header.__getitem__" =>
        /\ IsInt(arg) =>
             IF 0 <= arg.i /\ arg.i < N THEN out = Ok(arg) ELSE out.kind = "IndexError"
        /\ IsStr(arg) =>
             IF InHeader(arg.s) THEN out = Ok(PyInt(names_to_idxs[arg.s]))
             ELSE out.kind = "KeyError"
        /\ (~IsInt(arg) /\ ~IsStr(arg)) => out.kind = "KeyError"
        /\ out.kind = "ok" => (0 <= out.val.i /\ out.val.i < N)

\* resolve(-1) on a non-empty header raised IndexError
C1_Witness ==
    /\ op = "Header.__getitem__" /\ arg = PyInt(-1) /\ N >= 1
    /\ out.kind = "IndexError"

\* C2: for a header of pairwise distinct names, resolve(name_of(i)) = i and
\* index_of(name_of(i)) = i for every i in [0, N), and
\* name_of(index_of(name)) = name for every name of the header.
C2_RoundTrip ==
    Distinct(ctor_names) =>
        /\ \A i \in 0..(N - 1) :
             LET nm == name_of(idxs_to_names, PyInt(i))
             IN  /\ nm.kind = "ok"
                 /\ Header__getitem__(idxs_to_names, names_to_idxs, nm.val) = Ok(PyInt(i))
                 /\ index_of(names_to_idxs, nm.val) = Ok(PyInt(i))
        /\ \A x \in Names : InHeader(x) =>
             LET ix == index_of(names_to_idxs, PyStr(x))
             IN  /\ ix.kind = "ok"
                 /\ name_of(idxs_to_names, ix.val) = Ok(PyStr(x))

\* index_of found the last name of a header of three distinct names
C2_Witness ==
    /\ Distinct(ctor_names) /\ N = 3
    /\ op = "Header.index_of" /\ arg = PyStr(ctor_names[3]) /\ out = Ok(PyInt(2))

\* C5: Header.name_of returns the name at position index when 0 <= index < N
\* and raises IndexError for every other integer index, negative ones included.
C5_NameOf ==
    (op = "Header.name_of" /\ IsInt(arg)) =>
        IF 0 <= arg.i /\ arg.i < N THEN out = Ok(PyStr(ctor_names[arg.i + 1]))
        ELSE out.kind = "IndexError"

\* C9: with repeated names, index_of(name) and resolve(name) return the largest
\* position at which the name occurs, name_of(i) returns the name given at
\* position i for every i in [0, N), and the length counts the duplicates.
C9_LastWriteWins ==
    /\ (op \in {"Header.index_of", "Header.__getitem__"} /\ IsStr(arg) /\ InHeader(arg.s)) =>
         out = Ok(PyInt(LastPos(arg.s)))
    /\ (op = "Header.name_of" /\ arg.t = "int" /\ 0 <= arg.i /\ arg.i < Len(ctor_names)) =>
         out = Ok(PyStr(ctor_names[arg.i + 1]))
    /\ op = "Header.__len__" => out = Ok(PyInt(Len(ctor_names)))

\* index_of of a name given at positions 0 and 2 returned 2
C9_Witness ==
    /\ Len(ctor_names) = 3 /\ ctor_names[1] = ctor_names[3] /\ ctor_names[2] # ctor_names[1]
    /\ op = "Header.index_of" /\ arg = PyStr(ctor_names[1]) /\ out = Ok(PyInt(2))

----------------------------------------------------------------------------
(* Properties of the Event *)

\* the value field f was constructed with: None when it was not supplied
Given(f) ==
    LET g == ctor_event[FieldPos(f) + 1] IN IF g = Unset THEN None_ ELSE g

\* the result of the last call to matches
Matched == out.val.i = 1

\* a criterion as the claim C3 reads it: a callable is satisfied iff invoking
\* it returns true, any other value iff it equals the field
SatisfiedAsClaimed(c, v) ==
    \/ c = Any
    \/ callable(c) /\ Apply(c, v)
    \/ ~callable(c) /\ c = v

\* a criterion as amended: a callable is also satisfied when it equals the field
Satisfied(c, v) ==
    \/ c = Any
    \/ c = v
    \/ callable(c) /\ Apply(c, v)

\* C3 as claimed: matches returns true iff every criterion is satisfied, a
\* predicate being satisfied iff invoking it on the field returns true.
C3_MatchesAsClaimed ==
    op = "Event.matches" =>
        (Matched <=> \A p \in 1..5 : SatisfiedAsClaimed(arg.items[p], event[p]))

\* C3 as amended: matches returns true iff every criterion is satisfied, where
\* the wildcard is always satisfied, and any other criterion is satisfied iff
\* it equals the field or it is callable and invoking it on the field returns
\* true; with every criterion the wildcard the result is true.
C3_Matches ==
    op = "Event.matches" =>
        /\ Matched <=> \A p \in 1..5 : Satisfied(arg.items[p], event[p])
        /\ (\A p \in 1..5 : arg.items[p] = Any) => Matched

\* matches(ev=f) was true on an Event whose ev is the predicate f itself,
\* although f(f) is false
C3_Witness ==
    /\ op = "Event.matches" /\ Matched
    /\ arg.items[4] = isOne /\ event[4] = isOne /\ ~Apply(isOne, event[4])
    /\ arg.items[5] = PyInt(1)

\* C4: for every field f, access by name e[f], by attribute e.f and by position
\* e[header.index_of(f)] return the value given for f at construction, None
\* when f was not supplied.
C4_FieldAccess ==
    /\ (op = "Event.__getitem__" /\ IsStr(arg) /\ arg.s \in FieldNames) =>
         out = Ok(Given(arg.s))
    /\ op = "Event.getattr" => out = Ok(Given(arg.s))
    /\ \A f \in FieldNames :
         (op = "Event.__getitem__" /\ Ok(arg) = index_of(names_to_idxs, PyStr(f))) =>
             out = Ok(Given(f))

\* e.val returned None for an Event constructed without val, with seq and ev
\* supplied
C4_Witness ==
    /\ ctor_event[5] = Unset /\ ctor_event[1] = PyInt(1) /\ ctor_event[4] = isOne
    /\ op = "Event.getattr" /\ arg = PyStr("val") /\ out = Ok(None_)

C8_Immutable ==
    /\ event = Event__new__(ctor_event)
    /\ idxs_to_names = Header__init__(ctor_names).idxs_to_names
    /\ names_to_idxs = Header__init__(ctor_names).names_to_idxs
    /\ op = "Event.__getitem__" =>
         out = Event__getitem__(Event__new__(ctor_event),
                                Header__init__(ctor_names).names_to_idxs, arg)
    /\ op = "Header.__getitem__" =>
         out = Header__getitem__(ctor_names, Header__init__(ctor_names).names_to_idxs, arg)
    /\ op = "Header.index_of" =>
         out = index_of(Header__init__(ctor_names).names_to_idxs, arg)
    /\ op = "Header.name_of" => out = name_of(ctor_names, arg)

\* a field was read by name after an earlier call had raised
C8_Witness ==
    /\ failed
    /\ op = "Event.__getitem__" /\ arg = PyStr("val") /\ out = Ok(PyInt(1))

\* the criteria evaluated and the predicates invoked by the last call to matches
Evaluated == log[1]
Invoked == log[2]
CriterionOf(f) == arg.items[FieldPos(f) + 1]
FieldOf(f) == event[FieldPos(f) + 1]

\* C10: matches evaluates its criteria in the order ev, time, val, dura, seq:
\* a criterion is evaluated only if those before it were satisfied, evaluation
\* stops at the first unsatisfied criterion, a true result has evaluated every
\* criterion, and each predicate is invoked at most once and only when its
\* criterion is evaluated.
C10_MatchOrder ==
    op = "Event.matches" =>
        /\ Len(Evaluated) <= 5
        /\ \A n \in 1..Len(Evaluated) :
             Evaluated[n] = <<"ev", "time", "val", "dura", "seq">>[n]
        /\ \A n \in 1..(Len(Evaluated) - 1) :
             Satisfied(CriterionOf(Evaluated[n]), FieldOf(Evaluated[n]))
        /\ ~Matched =>
             /\ Len(Evaluated) >= 1
             /\ ~Satisfied(CriterionOf(Evaluated[Len(Evaluated)]),
                           FieldOf(Evaluated[Len(Evaluated)]))
        /\ Matched => Len(Evaluated) = 5
        /\ \A m, n \in 1..Len(Invoked) : Invoked[m] = Invoked[n] => m = n
        /\ \A n \in 1..Len(Invoked) :
             /\ callable(CriterionOf(Invoked[n]))
             /\ \E k \in 1..Len(Evaluated) : Evaluated[k] = Invoked[n]

\* matches stopped at val, the third criterion, after invoking the predicates
\* given for ev and val; the predicates given for dura and seq were not invoked
C10_Witness ==
    /\ op = "Event.matches" /\ ~Matched
    /\ Evaluated = <<"ev", "time", "val">>
    /\ Invoked = <<"ev", "val">>
    /\ CriterionOf("dura") = isOne /\ CriterionOf("seq") = isOne
    /\ FieldOf("dura") = PyInt(1)

----------------------------------------------------------------------------
(* Properties of the sort key *)

\* the first position at which two tuples differ
FirstDiff(a, b) == CHOOSE p \in 1..5 : a[p] # b[p] /\ \A q \in 1..(p - 1) : a[q] = b[q]

\* C7: of a.sort_key() <, ==, > b.sort_key() exactly one holds; the keys are
\* equal iff the field tuples are the same; otherwise the first field, in the
\* order seq, time, dura, ev, val, whose values differ decides.
C7_SortKeyOrder ==
    op = "compare sort_key" =>
        LET a == event
            b == arg.items
            r == out.val
        IN  /\ out.kind = "ok"
            /\ (r.lt /\ ~r.eq /\ ~r.gt) \/ (~r.lt /\ r.eq /\ ~r.gt) \/ (~r.lt /\ ~r.eq /\ r.gt)
            /\ r.eq <=> a = b
            /\ a # b =>
                 LET p == FirstDiff(a, b)
                 IN  /\ r.lt <=> canon_lt(universal_sort_key(a[p]), universal_sort_key(b[p]))
                     /\ r.gt <=> canon_lt(universal_sort_key(b[p]), universal_sort_key(a[p]))

\* two Events equal in seq and time and differing first in dura, absent in one
\* and present in the other, compared as less although val alone would say
\* greater
C7_Witness ==
    /\ op = "compare sort_key"
    /\ event[1] = PyInt(1) /\ arg.items[1] = PyInt(1)
    /\ event[2] = None_ /\ arg.items[2] = None_
    /\ event[3] = None_ /\ arg.items[3] = PyInt(2)
    /\ event[5] = PyStr("a") /\ arg.items[5] = PyInt(1)
    /\ out.val.lt

====
